---- MODULE Spec2Model ----
(***************************************************************************)
(* Dream Builder Runtime (src/app.js): scene instantiation, identity       *)
(* resolution of child meshes, path normalisation and material overrides.  *)
(*                                                                         *)
(* Strings are sequences of atoms.  An atom is either a single character   *)
(* the code inspects ("/", "\\", "?", "#", "_") or a run of characters     *)
(* the code only compares as a whole ("assets", "projects", a file name).  *)
(* No two atoms concatenate to a third, so a substring search over atoms   *)
(* finds what the character search of the code finds.                      *)
(***************************************************************************)
EXTENDS Integers, Sequences, FiniteSets, TLC

VARIABLES
    \* main(), src/app.js 3-187
    pc,            \* the statement main() has reached
    phase,         \* inside instantiateGraph: "pass1", "loading", "pass2"
    sceneGraph,    \* the parsed scene.json (EXPORTED_SCENE_GRAPH)
    assets,        \* what the files under assets/ hold: path -> meshes
    nodeIdx,       \* the position of the running for-loop of instantiateGraph
    childMeshNodes,\* the deferred child-mesh nodes, as positions in nodes
    meshes,        \* every mesh object created so far, in creation order
    nextUid,       \* the engine's unique-id counter
    instantiated,  \* positions of the nodes whose instantiateNode completed
    errorLog,      \* positions of the nodes whose error was caught and logged
    activeCamera,  \* scene.activeCamera, as a node position (0: none)
    controls,      \* the cameras that had attachControl called
    settingsApplied,   \* applySceneSettings has run
    overridesApplied,  \* applyMaterialOverrides has run
    renderLoop,        \* engine.runRenderLoop has been called
    \* applySceneSettings and the callbacks main() leaves behind
    env,               \* sceneSettings.environment of the document
    environmentTexture,\* scene.environmentTexture, the IBL texture object
    skybox,            \* the '__skybox__' mesh and its material
    iblLoad,           \* the load of the IBL texture: none, pending, fired, failed
    loadRefreshes,     \* runs of refreshMaterialsForIBL from the load event
    finalScheduled,    \* the timer of the final refresh has been set
    finalRefreshes,    \* runs of refreshMaterialsForIBL from that timer
    sceneReady,        \* scene.whenReadyAsync() has resolved
    overrideRuns,      \* calls of applyMaterialOverrides
    \* toRelativeAssetPath called on its own
    storagePath,   \* the argument of the first call
    relPath,       \* the result of the first call
    relAgain,      \* the result of calling it on relPath
    pathCalls,     \* how many of the two calls have returned
    \* applyMaterialOverrides on one entry of the overrides
    ovFound,       \* scene.materials holds a material of the entry's name
    ovProperty,    \* the property of the entry
    ovValue,       \* the value of the entry
    ovOriginal,    \* material[property] before the call
    ovSlot,        \* material[property]
    ovLoaded,      \* how many textures the call created
    ovDone,        \* the call has returned
    ovOriginalUV,  \* the UV properties of the texture in the slot before the call
    ovSlotUV       \* the UV properties of what the slot holds

envVars == <<env, environmentTexture, skybox, iblLoad, loadRefreshes,
             finalScheduled, finalRefreshes, sceneReady, overrideRuns>>

mainVars == <<pc, phase, sceneGraph, assets, nodeIdx, childMeshNodes, meshes,
              nextUid, instantiated, errorLog, activeCamera, controls,
              settingsApplied, overridesApplied, renderLoop, envVars>>

pathVars == <<storagePath, relPath, relAgain, pathCalls>>

overrideVars == <<ovFound, ovProperty, ovValue, ovOriginal, ovSlot, ovLoaded, ovDone,
                  ovOriginalUV, ovSlotUV>>

\* What the run of main() leaves alone.
sideVars == <<pathVars, overrideVars>>

vars == <<pc, phase, sceneGraph, assets, nodeIdx, childMeshNodes, meshes,
          nextUid, instantiated, errorLog, activeCamera, controls,
          settingsApplied, overridesApplied, renderLoop,
          env, environmentTexture, skybox, iblLoad, loadRefreshes,
          finalScheduled, finalRefreshes, sceneReady, overrideRuns,
          storagePath, relPath, relAgain, pathCalls,
          ovFound, ovProperty, ovValue, ovOriginal, ovSlot, ovLoaded, ovDone,
          ovOriginalUV, ovSlotUV>>

----------------------------------------------------------------------------
(* Bounds *)

MaxPathLen == 6
MaxNodes == 3
MaxSaved == 2
MaxRaw == 3
MaxUrlLen == 2
MaxShadowLen == 3
MaxChildren == 2

----------------------------------------------------------------------------
(* Strings *)

SeqsUpTo(S, n) == UNION {[1..k -> S] : k \in 0..n}

\* The not-yet-returned value of a call.
NoValue == <<"<none>">>

\* String.prototype.includes / indexOf(m) >= 0 at position i (1-based).
OccursAt(s, m, i) ==
    /\ i >= 1
    /\ i + Len(m) - 1 <= Len(s)
    /\ SubSeq(s, i, i + Len(m) - 1) = m

Occurrences(s, m) == {i \in 1..Len(s) : OccursAt(s, m, i)}

Min(S) == CHOOSE x \in S : \A y \in S : x <= y
Max(S) == CHOOSE x \in S : \A y \in S : x >= y

\* String.prototype.lastIndexOf, 0-based, -1 when absent.
lastIndexOf(s, m) == IF Occurrences(s, m) = {} THEN -1 ELSE Max(Occurrences(s, m)) - 1

\* String.prototype.indexOf, 0-based, -1 when absent.
indexOf(s, m) == IF Occurrences(s, m) = {} THEN -1 ELSE Min(Occurrences(s, m)) - 1

\* String.prototype.substring(from) with a 0-based start.
substring(s, from) == SubSeq(s, from + 1, Len(s))

\* A split that also cuts at the other separator, the backslash.
RECURSIVE splitEither(_, _)
splitEither(s, sep) ==
    IF \A i \in 1..Len(s) : s[i] \notin {sep, "\\"}
    THEN <<s>>
    ELSE LET k == Min({i \in 1..Len(s) : s[i] \in {sep, "\\"}})
         IN  <<SubSeq(s, 1, k - 1)>> \o splitEither(SubSeq(s, k + 1, Len(s)), sep)

\* String.prototype.split(sep) for a one-atom separator: never empty.
RECURSIVE split(_, _)
split(s, sep) ==
    IF \A i \in 1..Len(s) : s[i] # sep
    THEN <<s>>
    ELSE LET k == Min({i \in 1..Len(s) : s[i] = sep})
         IN  <<SubSeq(s, 1, k - 1)>> \o split(SubSeq(s, k + 1, Len(s)), sep)

\* Array.prototype.join(sep).
RECURSIVE join(_, _)
join(parts, sep) ==
    IF Len(parts) = 0 THEN <<>>
    ELSE IF Len(parts) = 1 THEN parts[1]
    ELSE parts[1] \o <<sep>> \o join(Tail(parts), sep)

\* Array.prototype.indexOf for an array of strings, 0-based.
arrayIndexOf(parts, x) ==
    IF \A i \in 1..Len(parts) : parts[i] # x THEN -1
    ELSE Min({i \in 1..Len(parts) : parts[i] = x}) - 1

\* Array.prototype.slice(from) with a 0-based start.
slice(parts, from) == SubSeq(parts, from + 1, Len(parts))

----------------------------------------------------------------------------
(* toRelativeAssetPath, src/app.js 901-921 *)

assetsMarker == <<"/", "assets", "/">>

\* The marker looked for from the end: the other reading of "after the marker".
markerIndexLast(pathStr) == lastIndexOf(pathStr, assetsMarker)

\* Where the '/assets/' marker is looked for (line 905).
markerIndex(pathStr) == indexOf(pathStr, assetsMarker)

\* The cascade without its emptiness guards: a plausible slip that returns the
\* last segment even when it is empty.
withoutMarkerUnguarded(pathStr) ==
    LET parts == split(pathStr, "/")
    IN  parts[Len(parts)]

\* Lines 909-920: the cascade taken when the marker is absent.
withoutMarker(pathStr) ==
    LET parts    == split(pathStr, "/")
        projIdx  == arrayIndexOf(parts, <<"projects">>)
        after    == IF projIdx >= 0 /\ Len(parts) > projIdx + 2
                    THEN join(slice(parts, projIdx + 2), "/")
                    ELSE <<>>
        filename == parts[Len(parts)]
    IN  IF after # <<>> THEN after
        ELSE IF filename # <<>> THEN filename
        ELSE join(split(join(split(pathStr, "/"), "_"), "\\"), "_")

toRelativeAssetPath(storagePath_) ==
    LET pathStr == storagePath_
        idx     == markerIndex(pathStr)
    IN  IF idx >= 0
        THEN substring(pathStr, idx + Len(assetsMarker))
        ELSE withoutMarker(pathStr)

----------------------------------------------------------------------------
(* Values of the scene document *)

\* JavaScript's undefined: a field the document does not have.
Undefined == <<"undefined">>

\* Truthiness of a string field: undefined and '' are falsy.
Truthy(x) == x # Undefined /\ x # <<>>

\* node.visible !== false, node.enabled !== false: a flag is "true", "false"
\* or "absent", and only "false" switches off.
notFalse(flag) == flag # "false"

Flags == {"absent", "true", "false"}

MESH_TAG == <<"::mesh::">>

\* id.includes('::mesh::') (lines 196, 354).
includesMeshTag(id) == Occurrences(id, MESH_TAG) # {}

\* getChildTokenFromId, lines 357-360 and 476-479: null is Undefined here.
getChildTokenFromId(id) ==
    LET i == lastIndexOf(id, MESH_TAG)
    IN  IF i >= 0 THEN substring(id, i + Len(MESH_TAG)) ELSE Undefined

DigitAtoms == {"0", "1", "2", "3", "4", "5", "6", "7", "8", "9"}

\* /^[0-9]+$/.test(token), line 368.
isDigits(token) == Len(token) > 0 /\ \A i \in 1..Len(token) : token[i] \in DigitAtoms

\* parseInt(token, 10) of a digit string, line 369.
RECURSIVE parseInt(_)
parseInt(token) ==
    IF Len(token) = 0 THEN 0
    ELSE parseInt(SubSeq(token, 1, Len(token) - 1)) * 10
         + (CHOOSE n \in 0..9 : ToString(n) = token[Len(token)])

\* String.prototype.toLowerCase on the mesh names of the model.
toLowerCase(name) ==
    CASE name = "Wheel" -> "wheel"
      [] name = "Door"  -> "door"
      [] name = "Mesh"  -> "mesh"
      [] OTHER          -> name

\* A node of the scene graph.  hasTransform: node.transform.position exists.
\* payloadThrows: the kind's own payload makes its constructor code throw
\* (a camera target or a light groundColor that is not iterable).
Node(kind, id, parentId, name, visible, enabled) ==
    [kind |-> kind, id |-> id, parentId |-> parentId, name |-> name,
     visible |-> visible, enabled |-> enabled, hasTransform |-> TRUE,
     src |-> Undefined, payloadThrows |-> FALSE, active |-> FALSE]

\* What the scene document is: the response failed, the JSON is null, has no
\* nodes, has a nodes field that is no array, or is well formed.
Shapes == {"fetchFailed", "null", "noNodes", "nodesNotArray", "ok"}

Document(shape, nodes, hasSettings, hasOverrides) ==
    [shape |-> shape, nodes |-> nodes,
     sceneSettings |-> hasSettings, materialOverrides |-> hasOverrides]

\* A mesh the loader returns: its name and whether it is a BABYLON.Mesh.
RawMesh(name, isMesh) == [name |-> name, isMesh |-> isMesh]

----------------------------------------------------------------------------
(* Identity resolver: loadModelFromAssets, lines 481-540 *)

\* Line 482: the saved child nodes of a model, in scene-graph order.
childNodesOf(nodes, node) ==
    SelectSeq(nodes, LAMBDA n : n.parentId = node.id /\ n.kind = "mesh")

\* Lines 489 and 511: (x.name || 'Mesh').toLowerCase().
nameOf(x) == toLowerCase(IF x.name = "" THEN "Mesh" ELSE x.name)

\* A counter that is never advanced.
occurrenceIndexStuck(seq, i) == 0

\* A counter shared by all names.
occurrenceIndexGlobal(seq, i) == i - 1

\* Lines 490-491 and 512-513: how many earlier entries carry the same name.
occurrenceIndex(seq, i) ==
    Cardinality({j \in 1..(i - 1) : nameOf(seq[j]) = nameOf(seq[i])})

\* Lines 494 and 515: `${nm}::${idx}`.
keyOf(seq, i) == <<nameOf(seq[i]), occurrenceIndex(seq, i)>>

\* Lines 485-497: the keys of sgIndex; a later set() of a key overwrites.
sgKeys(childNodes) == {keyOf(childNodes, i) : i \in 1..Len(childNodes)}

sgEntry(childNodes, key) ==
    LET i     == Max({j \in 1..Len(childNodes) : keyOf(childNodes, j) = key})
        token == getChildTokenFromId(childNodes[i].id)
    IN  [node |-> childNodes[i], token |-> IF Truthy(token) THEN token ELSE <<>>]

\* The filter without its second half: the container is walked too.
isActualMeshWithRoot(m) == m.isMesh

\* Lines 505-507: Mesh instances other than the "__root__" container.
isActualMesh(m) == m.isMesh /\ m.name # "__root__"

actualMeshes(raw) == SelectSeq(raw, isActualMesh)

\* Line 518: whether the runtime mesh has a saved record.
hasEntry(childNodes, key) == key \in sgKeys(childNodes)

\* Lines 525-529: the child's flags merged with the parent's.
effectiveVisible(childNode, node) ==
    /\ notFalse(childNode.visible)
    /\ notFalse(childNode.enabled)
    /\ notFalse(node.visible)
    /\ notFalse(node.enabled)

\* A mesh object.  owner: the position of the model node that loaded it (0 for
\* a primitive); stableId: metadata.stableId; movedBy: the position of the
\* child-mesh node whose transform it carries (0: the loader's own).
MeshObject(uid, name, isMesh, owner, stableId, visibility, disposed, inScene) ==
    [uid |-> uid, name |-> name, isMesh |-> isMesh, owner |-> owner,
     stableId |-> stableId, visibility |-> visibility, disposed |-> disposed,
     inScene |-> inScene, movedBy |-> 0]

\* Lines 499-543 for the r-th mesh of the load result: stamped and kept,
\* disposed, or (root, not a Mesh) dropped from result.meshes as it is.
resolveMesh(nodes, k, raw, r, uid) ==
    LET node       == nodes[k]
        childNodes == childNodesOf(nodes, node)
        actual     == actualMeshes(raw)
        j          == Cardinality({q \in 1..r : isActualMesh(raw[q])})
        key        == keyOf(actual, j)
    IN  IF ~isActualMesh(raw[r])
        THEN MeshObject(uid, raw[r].name, raw[r].isMesh, k, Undefined, 1, FALSE, FALSE)
        ELSE IF hasEntry(childNodes, key)
        THEN LET entry == sgEntry(childNodes, key)
             IN  MeshObject(uid, raw[r].name, TRUE, k, entry.token,
                            IF effectiveVisible(entry.node, node) THEN 1 ELSE 0,
                            FALSE, TRUE)
        ELSE MeshObject(uid, raw[r].name, TRUE, k, Undefined, 1, TRUE, FALSE)

\* Line 493 throws a TypeError when a saved child node has no id.
resolveThrows(nodes, k) ==
    LET childNodes == childNodesOf(nodes, nodes[k])
    IN  \E i \in 1..Len(childNodes) : childNodes[i].id = Undefined

\* The meshes of a load as left by loadModelFromAssets.
loadedMeshes(nodes, k, raw, uid0) ==
    [r \in 1..Len(raw) |->
        IF resolveThrows(nodes, k)
        THEN MeshObject(uid0 + r - 1, raw[r].name, raw[r].isMesh, k, Undefined, 1, FALSE, FALSE)
        ELSE resolveMesh(nodes, k, raw, r, uid0 + r - 1)]

----------------------------------------------------------------------------
(* Material overrides: applyMaterialOverrides, lines 784-898, for one entry  *)
(* (material name, property, value) of the overrides object.                 *)

\* isTextureProperty, lines 42-56.
textureProps ==
    {"albedoTexture", "baseTexture", "diffuseTexture",
     "metallicTexture", "roughnessTexture", "metallicRoughnessTexture",
     "reflectionTexture", "refractionTexture",
     "normalTexture", "bumpTexture",
     "emissiveTexture",
     "opacityTexture",
     "ambientTexture",
     "lightmapTexture",
     "clearCoatTexture", "clearCoatNormalTexture", "clearCoatRoughnessTexture",
     "sheenTexture", "sheenRoughnessTexture"}

isTextureProperty(prop) == prop \in textureProps

\* The atom "U_" stands for a 36-character uuid and the underscore after it:
\* /^[a-f0-9-]{36}_(.+)$/i matches a name that starts with it and goes on.
stripUuid(clean) ==
    IF Len(clean) >= 2 /\ clean[1] = "U_" THEN Tail(clean) ELSE clean

\* The cleaning applied to the whole url instead of its last segment.
getFilenameFromUrlWhole(url) ==
    IF ~Truthy(url) THEN <<>>
    ELSE stripUuid(split(split(url, "?")[1], "#")[1])

\* getFilenameFromUrl, lines 59-71.
getFilenameFromUrl(url) ==
    IF ~Truthy(url) THEN <<>>
    ELSE LET parts    == split(url, "/")
             lastPart == parts[Len(parts)]
             clean    == split(split(lastPart, "?")[1], "#")[1]
         IN  stripUuid(clean)

\* No texture in the slot (null or undefined).
NoTexture == [id |-> 0, url |-> Undefined, name |-> Undefined]

Texture(id, url, name) == [id |-> id, url |-> url, name |-> name]

\* An override value that is no string (a number, a boolean, null).
NotAString == <<"not a string">>

\* What a slot holds after a plain assignment of value (line 873).
Assigned(value) == [id |-> -1, url |-> Undefined, name |-> value]

\* loadTextureFromAssetPath, lines 73-92: null (NoTexture) for a falsy path.
loadTextureFromAssetPath(assetStoragePath, id) ==
    IF ~Truthy(assetStoragePath) THEN NoTexture
    ELSE LET url    == <<"assets", "/">> \o toRelativeAssetPath(assetStoragePath)
             parts2 == split(url, "/")
         IN  Texture(id, url, parts2[Len(parts2)])

\* Line 821.
isEmbedded(originalTexture) ==
    /\ originalTexture # NoTexture
    /\ Truthy(originalTexture.url)
    /\ Occurrences(originalTexture.url, <<"#">>) # {}

\* Line 818.
currentPathOf(originalTexture) ==
    IF originalTexture = NoTexture THEN <<>>
    ELSE IF Truthy(originalTexture.url) THEN originalTexture.url
    ELSE IF Truthy(originalTexture.name) THEN originalTexture.name
    ELSE <<>>

\* The properties lines 834-850 copy from the original texture.
UVProps ==
    {"coordinatesIndex", "uOffset", "vOffset", "uScale", "vScale",
     "uAng", "vAng", "wAng", "wrapU", "wrapV"}

\* The values of a UV property are numerals, so that they compare with the
\* two values that are none: a property the object does not have ('p' in
\* originalTexture is false), and a property whose value is no number.
Absent == "absent"
NotANumber == "not a number"

\* The UV properties of no texture.
NoUV == [p \in UVProps |-> Absent]

\* The UV properties of a texture as BABYLON.Texture constructs it (line 84):
\* channel 0, no offset, no rotation, scale 1, wrap mode 1.
FreshUV ==
    [p \in UVProps |-> IF p \in {"uScale", "vScale", "wrapU", "wrapV"} THEN "1" ELSE "0"]

\* Lines 856-864: the channel of a texture put into an empty slot.
defaultCoordinatesIndex(property) ==
    IF property \in {"ambientTexture", "lightmapTexture"} THEN "1" ELSE "0"

\* The copy with the wrap modes left out.
copiedUVWithoutWrap(originalTexture, originalUV, property) ==
    IF originalTexture # NoTexture
    THEN [p \in UVProps |->
            IF p \in {"wrapU", "wrapV"} \/ originalUV[p] \in {Absent, NotANumber}
            THEN FreshUV[p] ELSE originalUV[p]]
    ELSE [FreshUV EXCEPT !["coordinatesIndex"] = defaultCoordinatesIndex(property)]

\* Lines 832-865: the UV properties of the new texture.  coordinatesIndex is
\* copied when it is a number, every other property when the original has it.
copiedUV(originalTexture, originalUV, property) ==
    IF originalTexture # NoTexture
    THEN [p \in UVProps |->
            IF p = "coordinatesIndex"
            THEN IF originalUV[p] \in {Absent, NotANumber} THEN FreshUV[p] ELSE originalUV[p]
            ELSE IF originalUV[p] = Absent THEN FreshUV[p] ELSE originalUV[p]]
    ELSE [FreshUV EXCEPT !["coordinatesIndex"] = defaultCoordinatesIndex(property)]

\* The decision without the test for embedded textures.
shouldApplyOverrideByNameOnly(originalTexture, value) ==
    LET currentFile  == getFilenameFromUrl(currentPathOf(originalTexture))
        overrideFile == getFilenameFromUrl(value)
    IN  \/ originalTexture = NoTexture
        \/ (currentFile # overrideFile /\ overrideFile # <<>>)

\* Lines 818-822.
shouldApplyOverride(originalTexture, value) ==
    LET currentFile  == getFilenameFromUrl(currentPathOf(originalTexture))
        overrideFile == getFilenameFromUrl(value)
    IN  \/ originalTexture = NoTexture
        \/ isEmbedded(originalTexture)
        \/ (currentFile # overrideFile /\ overrideFile # <<>>)

OverrideIdle ==
    /\ ovFound = FALSE
    /\ ovProperty = "none"
    /\ ovValue = NotAString
    /\ ovOriginal = NoTexture
    /\ ovSlot = NoTexture
    /\ ovLoaded = 0
    /\ ovDone = FALSE
    /\ ovOriginalUV = NoUV
    /\ ovSlotUV = NoUV

----------------------------------------------------------------------------
(* main() and instantiateGraph *)

\* An order that applies the scene settings before the document is validated.
MainOrderSettingsFirst ==
    <<"fetch", "settings", "validate", "instantiate", "ready", "overrides",
      "finalIBL", "renderLoop">>

\* An order that applies the overrides before the scene reports ready.
MainOrderOverridesEarly ==
    <<"fetch", "validate", "instantiate", "settings", "overrides", "ready",
      "finalIBL", "renderLoop">>

\* An order that schedules the final refresh before the overrides.
MainOrderRefreshEarly ==
    <<"fetch", "validate", "instantiate", "settings", "ready", "finalIBL",
      "overrides", "renderLoop">>

\* The statements of main() in order, lines 115-182; "done" follows.
MainOrder ==
    <<"fetch", "validate", "instantiate", "settings", "ready", "overrides",
      "finalIBL", "renderLoop">>

stageAfter(st) ==
    LET i == CHOOSE j \in 1..Len(MainOrder) : MainOrder[j] = st
    IN  IF i = Len(MainOrder) THEN "done" ELSE MainOrder[i + 1]

\* Line 129: the document fails validation.
invalidGraph(doc) == doc.shape # "ok"

\* Lines 191 and 195: graph.nodes.length or the for-of over nodes throws.
nodesUnusable(doc) == doc.shape # "ok"

\* scene.meshes: the objects in the scene, as positions in meshes.
inSceneMeshes == {i \in 1..Len(meshes) : meshes[i].inScene /\ ~meshes[i].disposed}

\* Array.prototype.find over scene.meshes: the first position, 0 when none.
findMesh(Test(_)) ==
    IF \E i \in inSceneMeshes : Test(meshes[i])
    THEN Min({i \in inSceneMeshes : Test(meshes[i])})
    ELSE 0

\* The lookup with the numeric handle tried first.
findChildMeshUidFirst(token) ==
    LET byUid == IF isDigits(token)
                 THEN findMesh(LAMBDA m : m.uid = parseInt(token))
                 ELSE 0
    IN  IF byUid # 0 THEN byUid
        ELSE findMesh(LAMBDA m : m.stableId = token)

\* Lines 362-371: the mesh a child-mesh node refers to, 0 when none.
findChildMesh(token) ==
    LET byStableId == findMesh(LAMBDA m : m.stableId = token)
    IN  IF byStableId # 0 THEN byStableId
        ELSE IF isDigits(token)
        THEN findMesh(LAMBDA m : m.uid = parseInt(token))
        ELSE 0

\* scene.environmentTexture when it is null.
NoIbl == [id |-> 0, coordinatesMode |-> "none"]

\* The texture of lines 617 and 620: a cube texture, which the engine
\* constructs in its cubic coordinates mode.
IblTexture == [id |-> 1, coordinatesMode |-> "CUBIC_MODE"]

\* No '__skybox__' mesh in the scene.  reflectionTexture is the id of the
\* texture object the skybox material refers to, 0 for none.
NoSkybox ==
    [exists |-> FALSE, isVisible |-> FALSE, reflectionTexture |-> 0,
     coordinatesMode |-> "none"]

\* settings.environment.  iblPath and skyboxPanoramaPath: the path is there;
\* iblThrows: the constructor of the IBL texture throws (caught at 643);
\* skyboxType: "absent" or the string; skyboxTextures: "absent", or an object
\* with all six faces ("complete") or with some face missing ("incomplete").
Environment(useIBL, iblPath, useSkybox, skyboxType, skyboxPanoramaPath, skyboxTextures) ==
    [present |-> TRUE, useIBL |-> useIBL, iblPath |-> iblPath, iblThrows |-> FALSE,
     useSkybox |-> useSkybox, skyboxType |-> skyboxType,
     skyboxPanoramaPath |-> skyboxPanoramaPath, skyboxTextures |-> skyboxTextures]

\* Line 591 with settings.environment absent.
NoEnvironment ==
    [present |-> FALSE, useIBL |-> FALSE, iblPath |-> FALSE, iblThrows |-> FALSE,
     useSkybox |-> FALSE, skyboxType |-> "absent", skyboxPanoramaPath |-> FALSE,
     skyboxTextures |-> "absent"]

\* Line 720.
sbTypeOf(e) ==
    IF e.skyboxType # "absent" THEN e.skyboxType
    ELSE IF e.skyboxPanoramaPath THEN "panoramic"
    ELSE IF e.skyboxTextures # "absent" THEN "cube"
    ELSE IF e.useIBL THEN "iblFallback"
    ELSE "none"

\* The branches with an incomplete cube always hidden.
skyboxBranchNoFallback(e, envTex) ==
    LET sbType == sbTypeOf(e)
    IN  IF sbType = "panoramic" /\ e.skyboxPanoramaPath THEN "panoramic"
        ELSE IF sbType = "cube" /\ e.skyboxTextures # "absent"
        THEN IF e.skyboxTextures = "complete" THEN "cube" ELSE "cubeHidden"
        ELSE IF sbType = "iblFallback" /\ envTex # NoIbl THEN "iblFallback"
        ELSE "hidden"

\* Lines 728-764: the branch the skybox setup takes.
skyboxBranch(e, envTex) ==
    LET sbType == sbTypeOf(e)
    IN  IF sbType = "panoramic" /\ e.skyboxPanoramaPath THEN "panoramic"
        ELSE IF sbType = "cube" /\ e.skyboxTextures # "absent"
        THEN IF e.skyboxTextures = "complete" THEN "cube"
             ELSE IF envTex # NoIbl THEN "cubeFallback"
             ELSE "cubeHidden"
        ELSE IF sbType = "iblFallback" /\ envTex # NoIbl THEN "iblFallback"
        ELSE "hidden"

\* No node is deferred: every node is instantiated where it stands.
isChildMeshNodeNever(node) == FALSE

\* Line 196: the node is deferred to the second pass.
isChildMeshNode(node) ==
    node.kind = "mesh" /\ includesMeshTag(node.id) /\ Truthy(node.parentId)

\* main() is waiting for a promise that the event loop resolves, so that
\* callbacks of textures and timers can run: code between awaits is atomic.
Suspended ==
    \/ pc \in {"fetch", "validate", "ready", "overrideDelay", "done", "error"}
    \/ (pc = "instantiate" /\ phase = "loading")

\* The state main() starts in (and stays in while another part is exercised).
MainStart ==
    /\ phase = "pass1"
    /\ nodeIdx = 1
    /\ childMeshNodes = <<>>
    /\ meshes = <<>>
    /\ nextUid = 1
    /\ instantiated = {}
    /\ errorLog = {}
    /\ activeCamera = 0
    /\ controls = {}
    /\ settingsApplied = FALSE
    /\ overridesApplied = FALSE
    /\ renderLoop = FALSE
    /\ environmentTexture = NoIbl
    /\ skybox = NoSkybox
    /\ iblLoad = "none"
    /\ loadRefreshes = 0
    /\ finalScheduled = FALSE
    /\ finalRefreshes = 0
    /\ sceneReady = FALSE
    /\ overrideRuns = 0

MainIdle ==
    /\ pc = "idle"
    /\ sceneGraph = Document("ok", <<>>, FALSE, FALSE)
    /\ env = NoEnvironment
    /\ assets = <<>>
    /\ MainStart

PathIdle ==
    /\ storagePath = NoValue
    /\ relPath = NoValue
    /\ relAgain = NoValue
    /\ pathCalls = 0

\* Lines 115-122: the fetch of scene.json; a failed response is thrown.
Fetch ==
    /\ pc = "fetch"
    /\ pc' = IF sceneGraph.shape = "fetchFailed" THEN "error" ELSE stageAfter("fetch")
    /\ UNCHANGED <<phase, sceneGraph, assets, nodeIdx, childMeshNodes, meshes,
                   nextUid, instantiated, errorLog, activeCamera, controls,
                   settingsApplied, overridesApplied, renderLoop>>
    /\ UNCHANGED envVars
    /\ UNCHANGED sideVars

\* Lines 128-131: validation; the throw lands in the catch of line 184.
Validate ==
    /\ pc = "validate"
    /\ pc' = IF invalidGraph(sceneGraph) THEN "error" ELSE stageAfter("validate")
    /\ UNCHANGED <<phase, sceneGraph, assets, nodeIdx, childMeshNodes, meshes,
                   nextUid, instantiated, errorLog, activeCamera, controls,
                   settingsApplied, overridesApplied, renderLoop>>
    /\ UNCHANGED envVars
    /\ UNCHANGED sideVars

\* instantiateNode, lines 215-430, for the node at position k.  A throw of
\* lines 216-218 is outside the try and rejects the call: main() catches it.
InstantiateNode(k) ==
    LET node == sceneGraph.nodes[k]
        stay == /\ UNCHANGED <<meshes, nextUid, activeCamera, controls>>
    IN  IF ~node.hasTransform
        THEN /\ pc' = "error"
             /\ UNCHANGED <<phase, nodeIdx, meshes, nextUid, instantiated,
                            errorLog, activeCamera, controls>>
        ELSE
        CASE node.kind = "camera" ->
               /\ IF node.payloadThrows
                  THEN /\ errorLog' = errorLog \cup {k}
                       /\ UNCHANGED <<instantiated, nextUid, activeCamera, controls>>
                  ELSE /\ instantiated' = instantiated \cup {k}
                       /\ nextUid' = nextUid + 1
                       /\ activeCamera' = IF node.active THEN k ELSE activeCamera
                       /\ controls' = IF node.active THEN controls \cup {k} ELSE controls
                       /\ UNCHANGED errorLog
               /\ nodeIdx' = nodeIdx + 1
               /\ UNCHANGED <<pc, phase, meshes>>
          [] node.kind = "light" ->
               /\ IF node.payloadThrows
                  THEN /\ errorLog' = errorLog \cup {k}
                       /\ UNCHANGED instantiated
                  ELSE /\ instantiated' = instantiated \cup {k}
                       /\ UNCHANGED errorLog
               /\ nextUid' = nextUid + 1
               /\ nodeIdx' = nodeIdx + 1
               /\ UNCHANGED <<pc, phase, meshes, activeCamera, controls>>
          [] node.kind = "mesh" ->
               /\ IF node.id = Undefined
                  THEN \* node.id.includes throws inside the try (line 354)
                       /\ errorLog' = errorLog \cup {k}
                       /\ UNCHANGED <<instantiated, meshes, nextUid>>
                  ELSE IF includesMeshTag(node.id) /\ Truthy(node.parentId)
                  THEN LET token == getChildTokenFromId(node.id)
                           found == IF Truthy(token) THEN findChildMesh(token) ELSE 0
                       IN  /\ meshes' =
                                IF found = 0 THEN meshes
                                ELSE [meshes EXCEPT ![found] =
                                        [@ EXCEPT !.movedBy = k,
                                                  !.visibility =
                                                      IF notFalse(node.visible) /\ notFalse(node.enabled)
                                                      THEN 1 ELSE 0]]
                           /\ instantiated' = instantiated \cup {k}
                           /\ UNCHANGED <<errorLog, nextUid>>
                  ELSE IF node.id \in {<<"defaultCube">>, <<"ground">>}
                  THEN /\ meshes' = Append(meshes,
                                [MeshObject(nextUid, node.id[1], TRUE, 0, Undefined,
                                    IF notFalse(node.visible) /\ notFalse(node.enabled)
                                    THEN 1 ELSE 0, FALSE, TRUE)
                                 EXCEPT !.movedBy = k])
                       /\ nextUid' = nextUid + 2
                       /\ instantiated' = instantiated \cup {k}
                       /\ UNCHANGED errorLog
                  ELSE /\ instantiated' = instantiated \cup {k}
                       /\ UNCHANGED <<errorLog, meshes, nextUid>>
               /\ nodeIdx' = nodeIdx + 1
               /\ UNCHANGED <<pc, phase, activeCamera, controls>>
          [] node.kind = "model" /\ Truthy(node.src) ->
               \* line 423: the call awaits the loader
               /\ phase' = "loading"
               /\ UNCHANGED <<pc, nodeIdx, instantiated, errorLog>>
               /\ stay
          [] OTHER ->
               /\ instantiated' = instantiated \cup {k}
               /\ nodeIdx' = nodeIdx + 1
               /\ UNCHANGED <<pc, phase, errorLog>>
               /\ stay

\* Lines 195-202: one turn of the first loop.
Pass1Step ==
    /\ pc = "instantiate"
    /\ phase = "pass1"
    /\ IF nodesUnusable(sceneGraph)
       THEN \* graph.nodes.length or the iteration throws
            /\ pc' = "error"
            /\ UNCHANGED <<phase, nodeIdx, childMeshNodes, meshes, nextUid,
                           instantiated, errorLog, activeCamera, controls>>
       ELSE /\ nodeIdx <= Len(sceneGraph.nodes)
            /\ LET node == sceneGraph.nodes[nodeIdx]
               IN  IF node.kind = "mesh" /\ node.id = Undefined
                   THEN \* node.id.includes throws in instantiateGraph (line 196)
                        /\ pc' = "error"
                        /\ UNCHANGED <<phase, nodeIdx, childMeshNodes, meshes, nextUid,
                                       instantiated, errorLog, activeCamera, controls>>
                   ELSE IF isChildMeshNode(node)
                   THEN /\ childMeshNodes' = Append(childMeshNodes, nodeIdx)
                        /\ nodeIdx' = nodeIdx + 1
                        /\ UNCHANGED <<pc, phase, meshes, nextUid, instantiated,
                                       errorLog, activeCamera, controls>>
                   ELSE /\ InstantiateNode(nodeIdx)
                        /\ UNCHANGED childMeshNodes
    /\ UNCHANGED <<sceneGraph, assets, settingsApplied, overridesApplied, renderLoop>>
    /\ UNCHANGED envVars
    /\ UNCHANGED sideVars

\* loadModelFromAssets from the resolution of the load on, lines 448-558.
\* The asset is the file at 'assets/' + toRelativeAssetPath(node.src); that
\* every loaded mesh becomes a direct child of the new parent node (466-468)
\* makes the dispose of one mesh leave the others alone.
LoadSettle ==
    /\ pc = "instantiate"
    /\ phase = "loading"
    /\ LET node      == sceneGraph.nodes[nodeIdx]
           assetPath == toRelativeAssetPath(node.src)
           result    == assets[assetPath]
       IN  IF assetPath \notin DOMAIN assets
           THEN \* no such file: the load rejects and line 556 catches it
                /\ errorLog' = errorLog \cup {nodeIdx}
                /\ UNCHANGED <<meshes, nextUid, instantiated>>
           ELSE IF Len(result) = 0
           THEN /\ instantiated' = instantiated \cup {nodeIdx}
                /\ UNCHANGED <<meshes, nextUid, errorLog>>
           ELSE /\ meshes' = meshes \o loadedMeshes(sceneGraph.nodes, nodeIdx, result, nextUid)
                /\ nextUid' = nextUid + Len(result) + 1
                /\ IF resolveThrows(sceneGraph.nodes, nodeIdx)
                   THEN /\ errorLog' = errorLog \cup {nodeIdx}
                        /\ UNCHANGED instantiated
                   ELSE /\ instantiated' = instantiated \cup {nodeIdx}
                        /\ UNCHANGED errorLog
    /\ phase' = "pass1"
    /\ nodeIdx' = nodeIdx + 1
    /\ UNCHANGED <<pc, sceneGraph, assets, childMeshNodes, activeCamera, controls,
                   settingsApplied, overridesApplied, renderLoop>>
    /\ UNCHANGED envVars
    /\ UNCHANGED sideVars

\* Line 202 to 205: the first loop is over.
Pass1End ==
    /\ pc = "instantiate"
    /\ phase = "pass1"
    /\ ~nodesUnusable(sceneGraph)
    /\ nodeIdx > Len(sceneGraph.nodes)
    /\ phase' = "pass2"
    /\ nodeIdx' = 1
    /\ UNCHANGED <<pc, sceneGraph, assets, childMeshNodes, meshes, nextUid,
                   instantiated, errorLog, activeCamera, controls,
                   settingsApplied, overridesApplied, renderLoop>>
    /\ UNCHANGED envVars
    /\ UNCHANGED sideVars

\* Lines 205-210: one turn of the second loop.
Pass2Step ==
    /\ pc = "instantiate"
    /\ phase = "pass2"
    /\ nodeIdx <= Len(childMeshNodes)
    /\ LET k == childMeshNodes[nodeIdx]
       IN  InstantiateNode(k)
    /\ UNCHANGED <<sceneGraph, assets, childMeshNodes,
                   settingsApplied, overridesApplied, renderLoop>>
    /\ UNCHANGED envVars
    /\ UNCHANGED sideVars

\* Line 212: instantiateGraph returns.
Pass2End ==
    /\ pc = "instantiate"
    /\ phase = "pass2"
    /\ nodeIdx > Len(childMeshNodes)
    /\ pc' = stageAfter("instantiate")
    /\ phase' = "returned"
    /\ UNCHANGED <<sceneGraph, assets, nodeIdx, childMeshNodes, meshes, nextUid,
                   instantiated, errorLog, activeCamera, controls,
                   settingsApplied, overridesApplied, renderLoop>>
    /\ UNCHANGED envVars
    /\ UNCHANGED sideVars

\* Lines 138-141 and 587-693: sceneGraph.sceneSettings of a null document
\* throws; otherwise the environment part of applySceneSettings sets or
\* clears scene.environmentTexture.  Nothing in the function is awaited.
ApplySettings ==
    /\ pc = "settings"
    /\ IF sceneGraph.shape \in {"null", "fetchFailed"}
       THEN /\ pc' = "error"
            /\ UNCHANGED <<environmentTexture, iblLoad>>
       ELSE IF ~sceneGraph.sceneSettings
       THEN /\ pc' = stageAfter("settings")
            /\ UNCHANGED <<environmentTexture, iblLoad>>
       ELSE /\ pc' = "skybox"
            /\ IF ~env.present
               THEN UNCHANGED <<environmentTexture, iblLoad>>
               ELSE IF env.useIBL /\ env.iblPath
               THEN IF env.iblThrows
                    THEN UNCHANGED <<environmentTexture, iblLoad>>
                    ELSE /\ environmentTexture' = IblTexture
                         /\ iblLoad' = "pending"
               ELSE /\ environmentTexture' = NoIbl
                    /\ UNCHANGED iblLoad
    /\ UNCHANGED <<phase, sceneGraph, assets, nodeIdx, childMeshNodes, meshes,
                   nextUid, instantiated, errorLog, activeCamera, controls,
                   settingsApplied, overridesApplied, renderLoop>>
    /\ UNCHANGED <<env, skybox, loadRefreshes, finalScheduled, finalRefreshes,
                   sceneReady, overrideRuns>>
    /\ UNCHANGED sideVars

\* Lines 695-781: the skybox part of applySceneSettings.  The scene is new,
\* so there is no earlier skybox and no earlier reflection texture to dispose
\* (700, 723-726).  The two fallbacks hand the IBL texture object itself to
\* the skybox material and set its coordinates mode (749-750, 758-759).
ApplySkybox ==
    /\ pc = "skybox"
    /\ pc' = stageAfter("settings")
    /\ settingsApplied' = TRUE
    /\ IF env.present /\ env.useSkybox
       THEN LET branch == skyboxBranch(env, environmentTexture)
            IN  CASE branch = "panoramic" ->
                       /\ skybox' = [exists |-> TRUE, isVisible |-> TRUE,
                                     reflectionTexture |-> 2,
                                     coordinatesMode |-> "FIXED_EQUIRECTANGULAR_MODE"]
                       /\ UNCHANGED environmentTexture
                  [] branch = "cube" ->
                       /\ skybox' = [exists |-> TRUE, isVisible |-> TRUE,
                                     reflectionTexture |-> 2,
                                     coordinatesMode |-> "SKYBOX_MODE"]
                       /\ UNCHANGED environmentTexture
                  [] branch \in {"cubeFallback", "iblFallback"} ->
                       /\ skybox' = [exists |-> TRUE, isVisible |-> TRUE,
                                     reflectionTexture |-> environmentTexture.id,
                                     coordinatesMode |-> "SKYBOX_MODE"]
                       /\ environmentTexture' =
                              [environmentTexture EXCEPT !.coordinatesMode = "SKYBOX_MODE"]
                  [] OTHER ->
                       /\ skybox' = [exists |-> TRUE, isVisible |-> FALSE,
                                     reflectionTexture |-> 0, coordinatesMode |-> "none"]
                       /\ UNCHANGED environmentTexture
       ELSE UNCHANGED <<skybox, environmentTexture>>
    /\ UNCHANGED <<phase, sceneGraph, assets, nodeIdx, childMeshNodes, meshes,
                   nextUid, instantiated, errorLog, activeCamera, controls,
                   overridesApplied, renderLoop>>
    /\ UNCHANGED <<env, iblLoad, loadRefreshes, finalScheduled, finalRefreshes,
                   sceneReady, overrideRuns>>
    /\ UNCHANGED sideVars

\* Line 147: scene.whenReadyAsync() resolves.
WhenReady ==
    /\ pc = "ready"
    /\ pc' = stageAfter("ready")
    /\ sceneReady' = TRUE
    /\ UNCHANGED <<phase, sceneGraph, assets, nodeIdx, childMeshNodes, meshes,
                   nextUid, instantiated, errorLog, activeCamera, controls,
                   settingsApplied, overridesApplied, renderLoop>>
    /\ UNCHANGED <<env, environmentTexture, skybox, iblLoad, loadRefreshes,
                   finalScheduled, finalRefreshes, overrideRuns>>
    /\ UNCHANGED sideVars

\* Lines 150-153: with overrides in the document the timer of 250 ms is set
\* and awaited; sceneGraph.materialOverrides of a null document throws.
OverridesDelay ==
    /\ pc = "overrides"
    /\ pc' = IF sceneGraph.shape \in {"null", "fetchFailed"} THEN "error"
             ELSE IF sceneGraph.materialOverrides THEN "overrideDelay"
             ELSE stageAfter("overrides")
    /\ UNCHANGED <<phase, sceneGraph, assets, nodeIdx, childMeshNodes, meshes,
                   nextUid, instantiated, errorLog, activeCamera, controls,
                   settingsApplied, overridesApplied, renderLoop>>
    /\ UNCHANGED envVars
    /\ UNCHANGED sideVars

\* Lines 153-154: the timer fires and applyMaterialOverrides is called.
ApplyOverrides ==
    /\ pc = "overrideDelay"
    /\ pc' = stageAfter("overrides")
    /\ overridesApplied' = TRUE
    /\ overrideRuns' = overrideRuns + 1
    /\ UNCHANGED <<phase, sceneGraph, assets, nodeIdx, childMeshNodes, meshes,
                   nextUid, instantiated, errorLog, activeCamera, controls,
                   settingsApplied, renderLoop>>
    /\ UNCHANGED <<env, environmentTexture, skybox, iblLoad, loadRefreshes,
                   finalScheduled, finalRefreshes, sceneReady>>
    /\ UNCHANGED sideVars

\* Lines 157-165: with an environment texture on the scene the timer of the
\* final refresh is set.
FinalIBL ==
    /\ pc = "finalIBL"
    /\ pc' = stageAfter("finalIBL")
    /\ finalScheduled' = (finalScheduled \/ environmentTexture # NoIbl)
    /\ UNCHANGED <<phase, sceneGraph, assets, nodeIdx, childMeshNodes, meshes,
                   nextUid, instantiated, errorLog, activeCamera, controls,
                   settingsApplied, overridesApplied, renderLoop>>
    /\ UNCHANGED <<env, environmentTexture, skybox, iblLoad, loadRefreshes,
                   finalRefreshes, sceneReady, overrideRuns>>
    /\ UNCHANGED sideVars

\* Lines 167-182: the render loop starts and the overlay is hidden.
StartRenderLoop ==
    /\ pc = "renderLoop"
    /\ pc' = stageAfter("renderLoop")
    /\ renderLoop' = TRUE
    /\ UNCHANGED <<phase, sceneGraph, assets, nodeIdx, childMeshNodes, meshes,
                   nextUid, instantiated, errorLog, activeCamera, controls,
                   settingsApplied, overridesApplied>>
    /\ UNCHANGED envVars
    /\ UNCHANGED sideVars

\* Lines 631-639: the load event of the IBL texture fires; addOnce makes the
\* callback run for the first event only.
IblLoaded ==
    /\ Suspended
    /\ iblLoad = "pending"
    /\ iblLoad' = "fired"
    /\ loadRefreshes' = loadRefreshes + 1
    /\ UNCHANGED <<pc, phase, sceneGraph, assets, nodeIdx, childMeshNodes, meshes,
                   nextUid, instantiated, errorLog, activeCamera, controls,
                   settingsApplied, overridesApplied, renderLoop>>
    /\ UNCHANGED <<env, environmentTexture, skybox, finalScheduled, finalRefreshes,
                   sceneReady, overrideRuns>>
    /\ UNCHANGED sideVars

\* The file of the IBL texture cannot be loaded: the load event never fires.
IblLoadFails ==
    /\ Suspended
    /\ iblLoad = "pending"
    /\ iblLoad' = "failed"
    /\ UNCHANGED <<pc, phase, sceneGraph, assets, nodeIdx, childMeshNodes, meshes,
                   nextUid, instantiated, errorLog, activeCamera, controls,
                   settingsApplied, overridesApplied, renderLoop>>
    /\ UNCHANGED <<env, environmentTexture, skybox, loadRefreshes, finalScheduled,
                   finalRefreshes, sceneReady, overrideRuns>>
    /\ UNCHANGED sideVars

\* Lines 161-164: the timer of 300 ms fires.
FinalRefresh ==
    /\ Suspended
    /\ finalScheduled
    /\ finalRefreshes = 0
    /\ finalRefreshes' = finalRefreshes + 1
    /\ UNCHANGED <<pc, phase, sceneGraph, assets, nodeIdx, childMeshNodes, meshes,
                   nextUid, instantiated, errorLog, activeCamera, controls,
                   settingsApplied, overridesApplied, renderLoop>>
    /\ UNCHANGED <<env, environmentTexture, skybox, iblLoad, loadRefreshes,
                   finalScheduled, sceneReady, overrideRuns>>
    /\ UNCHANGED sideVars

Next ==
    \/ Fetch
    \/ Validate
    \/ Pass1Step
    \/ LoadSettle
    \/ Pass1End
    \/ Pass2Step
    \/ Pass2End
    \/ ApplySettings
    \/ ApplySkybox
    \/ WhenReady
    \/ OverridesDelay
    \/ ApplyOverrides
    \/ FinalIBL
    \/ StartRenderLoop
    \/ IblLoaded
    \/ IblLoadFails
    \/ FinalRefresh

----------------------------------------------------------------------------
(* The scene documents and asset files the runs start from *)

\* Two storage paths and the files they resolve to.
CarSrc == <<"u1", "/", "projects", "/", "p1", "/", "assets", "/", "car.gltf">>
VanSrc == <<"van.glb">>
CarFile == <<"car.gltf">>
VanFile == <<"van.glb">>

ModelCar ==
    [Node("model", <<"m1">>, Undefined, "car", "absent", "absent") EXCEPT !.src = CarSrc]

ModelVan ==
    [Node("model", <<"m2">>, Undefined, "van", "false", "absent") EXCEPT !.src = VanSrc]

\* A model whose file is not there: the load rejects.
ModelMissing ==
    [Node("model", <<"m3">>, Undefined, "gone", "absent", "absent")
        EXCEPT !.src = <<"gone.glb">>]

ChildOf(model, token, name) ==
    Node("mesh", model \o MESH_TAG \o token, model, name, "absent", "absent")

NodePool ==
    {ModelCar, ModelVan, ModelMissing,
     ChildOf(<<"m1">>, <<"t0">>, "Wheel"),
     ChildOf(<<"m2">>, <<"t0">>, "Wheel"),
     ChildOf(<<"m1">>, <<"2">>, "Door"),
     [Node("camera", <<"cam1">>, Undefined, "cam1", "absent", "absent") EXCEPT !.active = TRUE],
     [Node("camera", <<"cam2">>, Undefined, "cam2", "absent", "absent") EXCEPT !.active = TRUE],
     [Node("camera", <<"cam3">>, Undefined, "cam3", "absent", "absent")
        EXCEPT !.payloadThrows = TRUE],
     Node("light", <<"sun">>, Undefined, "sun", "absent", "absent"),
     [Node("light", <<"lamp">>, Undefined, "lamp", "absent", "absent")
        EXCEPT !.hasTransform = FALSE],
     Node("mesh", <<"defaultCube">>, Undefined, "cube", "absent", "false"),
     Node("mesh", Undefined, Undefined, "anon", "absent", "absent")}

\* Sequences of distinct pool nodes.
NodeSeqs(n) ==
    {s \in SeqsUpTo(NodePool, n) : \A i, j \in 1..Len(s) : i # j => s[i] # s[j]}

AssetFiles ==
    (CarFile :> <<RawMesh("__root__", TRUE), RawMesh("Wheel", TRUE), RawMesh("Door", TRUE)>>)
    @@ (VanFile :> <<RawMesh("Wheel", TRUE)>>)

\* IBL from a file, shown as the skybox too.
IblEnvironment == Environment(TRUE, TRUE, TRUE, "absent", FALSE, "absent")

Init ==
    /\ pc = "fetch"
    /\ \/ \E nodes \in NodeSeqs(MaxNodes), hasSettings \in BOOLEAN, hasOverrides \in BOOLEAN :
            sceneGraph = Document("ok", nodes, hasSettings, hasOverrides)
       \/ \E shape \in Shapes \ {"ok"}, hasSettings \in BOOLEAN, hasOverrides \in BOOLEAN :
            sceneGraph = Document(shape, <<>>, hasSettings, hasOverrides)
    /\ env = IF sceneGraph.sceneSettings THEN IblEnvironment ELSE NoEnvironment
    /\ assets = AssetFiles
    /\ MainStart
    /\ PathIdle
    /\ OverrideIdle

Spec == Init /\ [][Next]_vars

\* Every node of the document has been through instantiateNode, in the first
\* or in the second pass, and no load is in flight.
AllNodesFinished ==
    /\ phase = "returned"
    /\ instantiated \cup errorLog = 1..Len(sceneGraph.nodes)

\* C13: applyMaterialOverrides runs at most once, and when it has run, both
\* passes over the nodes are over with every node finished and no load in
\* flight, the scene settings of the document have been applied, the ready
\* signal has resolved and the wait of the fixed delay is over: while main()
\* is still at an earlier statement or is waiting for the delay, the
\* overrides have not run.
C13_OverridesOnceAfterReadyAndDelay ==
    /\ overrideRuns <= 1
    /\ overridesApplied <=> overrideRuns = 1
    /\ pc \in {"fetch", "validate", "instantiate", "settings", "skybox", "ready",
               "overrides", "overrideDelay"} => overrideRuns = 0
    /\ overrideRuns > 0 =>
          /\ AllNodesFinished
          /\ sceneGraph.sceneSettings => settingsApplied
          /\ sceneReady
          /\ sceneGraph.materialOverrides

C13_Witness ==
    /\ overrideRuns = 1
    /\ pc = "done"
    /\ settingsApplied
    /\ Len(meshes) > 1
    /\ childMeshNodes # <<>>

\* The nodes that have been through instantiateNode.
Finished == instantiated \cup errorLog

\* A child-mesh node: kind mesh, "::mesh::" in its id, and a parentId.
DeferredChild(k) ==
    /\ sceneGraph.nodes[k].kind = "mesh"
    /\ includesMeshTag(sceneGraph.nodes[k].id)
    /\ Truthy(sceneGraph.nodes[k].parentId)

\* C15: while the first pass runs, a load being awaited included, the nodes
\* that have been through instantiateNode are exactly the nodes before the
\* current one that are no child-mesh nodes, so each node, a model with its
\* whole load pipeline included, is finished before the next one starts and
\* at most one load is in flight; a child-mesh node has been through
\* instantiateNode, and a mesh carries the transform of a child-mesh node,
\* only when every other node is finished.
C15_ChildMeshNodesAfterAllOthers ==
    LET nodes  == sceneGraph.nodes
        others == {j \in 1..Len(nodes) : ~DeferredChild(j)}
    IN  /\ phase \in {"pass1", "loading"} =>
              Finished = {j \in others : j < nodeIdx}
        /\ phase = "loading" =>
              /\ nodeIdx \in 1..Len(nodes)
              /\ nodes[nodeIdx].kind = "model"
        /\ \A k \in 1..Len(nodes) :
              (DeferredChild(k)
                  /\ (k \in Finished \/ \E m \in 1..Len(meshes) : meshes[m].movedBy = k))
              => /\ phase \in {"pass2", "returned"}
                 /\ others \subseteq Finished

C15_Witness ==
    /\ phase = "pass2"
    /\ \E k \in 1..Len(sceneGraph.nodes), m \in 1..Len(meshes) :
          /\ DeferredChild(k)
          /\ meshes[m].movedBy = k
          /\ \E j \in (k + 1)..Len(sceneGraph.nodes) :
                sceneGraph.nodes[j].kind = "model" /\ meshes[m].owner = j

\* The camera nodes marked active whose camera has been created.
ActiveCameraNodes ==
    {k \in instantiated :
        sceneGraph.nodes[k].kind = "camera" /\ sceneGraph.nodes[k].active}

\* C18: after instantiation of a graph with camera nodes marked active, the
\* scene's active camera is the camera of the last such node and input
\* control is attached to that camera and to no other.
C18_ControlsOnActiveCameraOnly ==
    (phase = "returned" /\ ActiveCameraNodes # {}) =>
        /\ activeCamera = Max(ActiveCameraNodes)
        /\ controls = {activeCamera}

----------------------------------------------------------------------------
(* Two models and their child-mesh records: main() on documents with both   *)
(* models and up to MaxChildren child-mesh nodes, before or after them       *)

\* Child-mesh records: each model's "Wheel" under the same token, the car's
\* "Door" under a token of digits, and a record of the van under a token of
\* digits that no mesh of the van's file answers to.
ChildPool ==
    {ChildOf(<<"m1">>, <<"t0">>, "Wheel"),
     ChildOf(<<"m2">>, <<"t0">>, "Wheel"),
     ChildOf(<<"m1">>, <<"2">>, "Door"),
     ChildOf(<<"m2">>, <<"3">>, "Hood")}

ChildSeqs(n) ==
    {s \in SeqsUpTo(ChildPool, n) : \A i, j \in 1..Len(s) : i # j => s[i] # s[j]}

InitTwoModels ==
    /\ pc = "fetch"
    /\ \E c \in ChildSeqs(MaxChildren), hasSettings \in BOOLEAN, hasOverrides \in BOOLEAN :
          \/ sceneGraph = Document("ok", <<ModelCar, ModelVan>> \o c, hasSettings, hasOverrides)
          \/ sceneGraph = Document("ok", c \o <<ModelVan, ModelCar>>, hasSettings, hasOverrides)
    /\ env = IF sceneGraph.sceneSettings THEN IblEnvironment ELSE NoEnvironment
    /\ assets = AssetFiles
    /\ MainStart
    /\ PathIdle
    /\ OverrideIdle

SpecTwoModels == InitTwoModels /\ [][Next]_vars

\* C16: a mesh that carries the transform of a child-mesh node was loaded
\* for the model node named by that node's parentId and is stamped with
\* that node's token.
C16_TransformLandsOnOwnModel ==
    \A m \in 1..Len(meshes) :
        meshes[m].movedBy # 0 =>
            LET child == sceneGraph.nodes[meshes[m].movedBy]
            IN  /\ meshes[m].owner # 0
                /\ sceneGraph.nodes[meshes[m].owner].id = child.parentId
                /\ meshes[m].stableId = getChildTokenFromId(child.id)

\* The token of the child-mesh node at position k.
TokenOf(k) == getChildTokenFromId(sceneGraph.nodes[k].id)

\* Some mesh in the scene carries the token as its stableId.
SceneHasStableId(token) == \E i \in inSceneMeshes : meshes[i].stableId = token

\* C17: a mesh that carries the transform of a child-mesh node is stamped
\* with the node's token, or else the token is all digits, equals the mesh's
\* uniqueId and no mesh in the scene is stamped with it; a child-mesh node
\* whose token some mesh is stamped with has moved a mesh stamped with it;
\* and the stableId given at load is the token of a record of the mesh's own
\* model with the mesh's name, whatever the mesh's uniqueId.
C17_NumericLookupOnlyAfterStableIdFails ==
    /\ \A m \in 1..Len(meshes) :
          meshes[m].movedBy # 0 =>
              LET token == TokenOf(meshes[m].movedBy)
              IN  \/ meshes[m].stableId = token
                  \/ /\ isDigits(token)
                     /\ meshes[m].uid = parseInt(token)
                     /\ ~SceneHasStableId(token)
    /\ \A k \in instantiated :
          (DeferredChild(k) /\ SceneHasStableId(TokenOf(k))) =>
              \E i \in inSceneMeshes :
                  meshes[i].stableId = TokenOf(k) /\ meshes[i].movedBy # 0
    /\ \A i \in inSceneMeshes :
          meshes[i].owner # 0 =>
              \E c \in 1..Len(sceneGraph.nodes) :
                  /\ DeferredChild(c)
                  /\ sceneGraph.nodes[c].parentId = sceneGraph.nodes[meshes[i].owner].id
                  /\ TokenOf(c) = meshes[i].stableId
                  /\ nameOf(sceneGraph.nodes[c]) = nameOf(meshes[i])

\* The numeric handle decided: the mesh is not stamped with the token.
C17_Witness ==
    \E m \in 1..Len(meshes) :
        /\ meshes[m].movedBy # 0
        /\ meshes[m].stableId # TokenOf(meshes[m].movedBy)
        /\ meshes[m].uid = parseInt(TokenOf(meshes[m].movedBy))
        /\ \E i \in inSceneMeshes : isDigits(meshes[i].stableId)

----------------------------------------------------------------------------
(* applySceneSettings over every environment: main() from line 138 on, after *)
(* the graph of a document without nodes has been instantiated              *)

SkyboxTypes == {"absent", "panoramic", "cube", "iblFallback", "none"}

FaceSets == {"absent", "complete", "incomplete"}

Environments ==
    {[Environment(useIBL, iblPath, useSkybox, skyboxType, pano, faces)
         EXCEPT !.iblThrows = throws] :
        useIBL \in BOOLEAN, iblPath \in BOOLEAN, useSkybox \in BOOLEAN,
        skyboxType \in SkyboxTypes, pano \in BOOLEAN, faces \in FaceSets,
        throws \in BOOLEAN}

InitSettings ==
    /\ pc = "settings"
    /\ \E hasOverrides \in BOOLEAN :
           sceneGraph = Document("ok", <<>>, TRUE, hasOverrides)
    /\ env \in Environments \cup {NoEnvironment}
    /\ assets = <<>>
    /\ phase = "returned"
    /\ nodeIdx = 1
    /\ childMeshNodes = <<>>
    /\ meshes = <<>>
    /\ nextUid = 1
    /\ instantiated = {}
    /\ errorLog = {}
    /\ activeCamera = 0
    /\ controls = {}
    /\ settingsApplied = FALSE
    /\ overridesApplied = FALSE
    /\ renderLoop = FALSE
    /\ environmentTexture = NoIbl
    /\ skybox = NoSkybox
    /\ iblLoad = "none"
    /\ loadRefreshes = 0
    /\ finalScheduled = FALSE
    /\ finalRefreshes = 0
    /\ sceneReady = FALSE
    /\ overrideRuns = 0
    /\ PathIdle
    /\ OverrideIdle

NextSettings ==
    \/ ApplySettings
    \/ ApplySkybox
    \/ WhenReady
    \/ OverridesDelay
    \/ ApplyOverrides
    \/ FinalIBL
    \/ StartRenderLoop
    \/ IblLoaded
    \/ IblLoadFails
    \/ FinalRefresh

SpecSettings == InitSettings /\ [][NextSettings]_vars

\* The skybox part of applySceneSettings has run.
SkyboxConfigured == pc \notin {"settings", "skybox"} /\ settingsApplied

\* The skybox is enabled with type cube and not all six faces are there, the
\* whole skyboxTextures object included.
CubeWithMissingFace ==
    /\ env.present
    /\ env.useSkybox
    /\ sbTypeOf(env) = "cube"
    /\ env.skyboxTextures # "complete"

\* The skybox shows the IBL texture object with skybox-mapping coordinates.
SkyboxShowsIbl ==
    /\ skybox.exists
    /\ skybox.isVisible
    /\ environmentTexture # NoIbl
    /\ skybox.reflectionTexture = environmentTexture.id
    /\ skybox.coordinatesMode = "SKYBOX_MODE"

SkyboxHidden == skybox.exists /\ ~skybox.isVisible

\* C14 as stated: with type cube and a face missing, the skybox shows the
\* IBL texture when the scene has one and is hidden when it has none.
C14_MissingFaceFallsBackToIbl ==
    SkyboxConfigured /\ CubeWithMissingFace =>
        IF environmentTexture # NoIbl THEN SkyboxShowsIbl ELSE SkyboxHidden

\* C14: with type cube and a skyboxTextures object that lacks a face, the
\* skybox shows the IBL texture with skybox-mapping coordinates and is
\* visible when the scene has an IBL texture, and is hidden when it has
\* none; with type cube and no skyboxTextures object it is hidden either way.
C14_IncompleteFacesFallBackToIbl ==
    SkyboxConfigured /\ CubeWithMissingFace =>
        IF environmentTexture # NoIbl /\ env.skyboxTextures = "incomplete"
        THEN SkyboxShowsIbl
        ELSE SkyboxHidden

C14_Witness ==
    /\ SkyboxConfigured
    /\ CubeWithMissingFace
    /\ env.skyboxTextures = "incomplete"
    /\ SkyboxShowsIbl

\* C19: the step that configures the skybox leaves the scene's environment
\* texture object as it was, its coordinates mode included.
C19_SkyboxLeavesIblUnchanged ==
    [][pc = "skybox" => environmentTexture' = environmentTexture]_vars

----------------------------------------------------------------------------
(* The refreshes of the materials for IBL: main() over a few documents and  *)
(* the environments that differ in their IBL part, with the event loop fair *)

RefreshDocuments ==
    {<<>>,
     <<ModelCar, ChildOf(<<"m1">>, <<"t0">>, "Wheel")>>,
     <<[Node("light", <<"lamp">>, Undefined, "lamp", "absent", "absent")
           EXCEPT !.hasTransform = FALSE]>>}

\* IBL with and without the skybox on it, IBL whose texture cannot be
\* constructed, IBL switched off, and IBL without a path.
RefreshEnvironments ==
    {IblEnvironment,
     Environment(TRUE, TRUE, FALSE, "absent", FALSE, "absent"),
     [Environment(TRUE, TRUE, FALSE, "absent", FALSE, "absent") EXCEPT !.iblThrows = TRUE],
     Environment(FALSE, TRUE, TRUE, "absent", FALSE, "absent"),
     Environment(TRUE, FALSE, TRUE, "absent", FALSE, "absent")}

InitRefresh ==
    /\ pc = "fetch"
    /\ \E nodes \in RefreshDocuments, hasSettings \in BOOLEAN, hasOverrides \in BOOLEAN :
          sceneGraph = Document("ok", nodes, hasSettings, hasOverrides)
    /\ IF sceneGraph.sceneSettings
       THEN env \in RefreshEnvironments \cup {NoEnvironment}
       ELSE env = NoEnvironment
    /\ assets = AssetFiles
    /\ MainStart
    /\ PathIdle
    /\ OverrideIdle

\* The steps of main() itself: each continues once the promise or timer it
\* awaits has settled.
MainStep ==
    \/ Fetch
    \/ Validate
    \/ Pass1Step
    \/ LoadSettle
    \/ Pass1End
    \/ Pass2Step
    \/ Pass2End
    \/ ApplySettings
    \/ ApplySkybox
    \/ WhenReady
    \/ OverridesDelay
    \/ ApplyOverrides
    \/ FinalIBL
    \/ StartRenderLoop

\* The promises main() awaits settle and a timer that is set fires; whether
\* the file of the IBL texture ever loads is left open.
SpecRefresh ==
    /\ InitRefresh
    /\ [][Next]_vars
    /\ WF_vars(MainStep)
    /\ WF_vars(FinalRefresh)

\* What holds of the two refreshes in every state.
RefreshesInOrder ==
    /\ loadRefreshes = (IF iblLoad = "fired" THEN 1 ELSE 0)
    /\ iblLoad # "none" =>
          /\ env.useIBL /\ env.iblPath
          /\ environmentTexture # NoIbl
    /\ finalRefreshes <= 1
    /\ finalRefreshes > 0 =>
          /\ finalScheduled
          /\ AllNodesFinished
          /\ sceneGraph.sceneSettings => settingsApplied
          /\ sceneGraph.materialOverrides => overridesApplied
    /\ finalScheduled => environmentTexture # NoIbl
    /\ (pc \in {"renderLoop", "done"} /\ environmentTexture = NoIbl) =>
          ~finalScheduled /\ finalRefreshes = 0

----------------------------------------------------------------------------
(* The identity resolver on its own: one model node, its saved child-mesh   *)
(* nodes and any load result, from the call of instantiateGraph to its      *)
(* return.                                                                  *)

SavedNames == {"Wheel", "wheel", "Door"}

RawPool ==
    {RawMesh("Wheel", TRUE), RawMesh("Door", TRUE), RawMesh("", TRUE),
     RawMesh("__root__", TRUE), RawMesh("Wheel", FALSE)}

\* The i-th saved child of model m1: id 'm1::mesh::t<i>'.
SavedChild(i, name, visible, enabled) ==
    Node("mesh", <<"m1">> \o MESH_TAG \o <<"t" \o ToString(i - 1)>>, <<"m1">>,
         name, visible, enabled)

SavedChildren(names) ==
    [i \in 1..Len(names) |-> SavedChild(i, names[i], "absent", "absent")]

InitResolve ==
    /\ pc = "instantiate"
    /\ \E names \in SeqsUpTo(SavedNames, MaxSaved) :
          sceneGraph = Document("ok", <<ModelCar>> \o SavedChildren(names), FALSE, FALSE)
    /\ \E raw \in SeqsUpTo(RawPool, MaxRaw) : assets = (CarFile :> raw)
    /\ env = NoEnvironment
    /\ MainStart
    /\ PathIdle
    /\ OverrideIdle

NextResolve ==
    \/ Pass1Step
    \/ LoadSettle
    \/ Pass1End
    \/ Pass2Step
    \/ Pass2End

SpecResolve == InitResolve /\ [][NextResolve]_vars

----------------------------------------------------------------------------
(* Visibility: one model and one or two saved children with every setting   *)
(* of visible and enabled, against an asset with two matching meshes.       *)

FlaggedChildren ==
    {<<SavedChild(1, "Wheel", v, e)>> : v \in Flags, e \in Flags}
    \cup {<<SavedChild(1, "Wheel", v, e), SavedChild(2, "Wheel", e, v)>> :
            v \in Flags, e \in Flags}

InitVisibility ==
    /\ pc = "instantiate"
    /\ \E v \in Flags, e \in Flags, children \in FlaggedChildren :
          sceneGraph = Document("ok",
                          <<[ModelCar EXCEPT !.visible = v, !.enabled = e]>> \o children,
                          FALSE, FALSE)
    /\ assets = (CarFile :> <<RawMesh("__root__", TRUE), RawMesh("Wheel", TRUE),
                              RawMesh("Wheel", TRUE)>>)
    /\ env = NoEnvironment
    /\ MainStart
    /\ PathIdle
    /\ OverrideIdle

SpecVisibility == InitVisibility /\ [][NextResolve]_vars

----------------------------------------------------------------------------
(* Vocabulary of the claims about the identity resolver.  It is stated over  *)
(* the scene document and the mesh objects, apart from the operators above.  *)

Nodes == sceneGraph.nodes

\* The j-th smallest element of a set of numbers.
Nth(S, j) == CHOOSE x \in S : Cardinality({y \in S : y < x}) = j - 1

\* The positions of the model nodes whose load has completed.
LoadedModels ==
    {k \in 1..Len(Nodes) : Nodes[k].kind = "model" /\ k \in instantiated}

\* The saved child-mesh records of the model at position k, as positions.
SavedOf(k) ==
    {p \in 1..Len(Nodes) : Nodes[p].kind = "mesh" /\ Nodes[p].parentId = Nodes[k].id}

\* The runtime meshes of the model at k: the Mesh objects of its load other
\* than the "__root__" container, as positions in meshes.
RuntimeOf(k) ==
    {i \in 1..Len(meshes) :
        meshes[i].owner = k /\ meshes[i].isMesh /\ meshes[i].name # "__root__"}

\* lowercase(name), an unnamed mesh counting as "Mesh" (lines 489, 511).
LowerName(name) ==
    CASE name \in {"Wheel", "wheel"} -> "wheel"
      [] name \in {"Door", "door"}   -> "door"
      [] name \in {"", "Mesh", "mesh"} -> "mesh"
      [] OTHER -> name

SavedKey(k, p) ==
    <<LowerName(Nodes[p].name),
      Cardinality({q \in SavedOf(k) :
          q < p /\ LowerName(Nodes[q].name) = LowerName(Nodes[p].name)})>>

RuntimeKey(k, i) ==
    <<LowerName(meshes[i].name),
      Cardinality({q \in RuntimeOf(k) :
          q < i /\ LowerName(meshes[q].name) = LowerName(meshes[i].name)})>>

\* The token of a saved record: what follows '::mesh::' in its id.
SavedToken(p) ==
    LET id   == Nodes[p].id
        tags == {q \in 1..Len(id) : id[q] = "::mesh::"}
    IN  IF tags = {} THEN <<>> ELSE SubSeq(id, Max(tags) + 1, Len(id))

\* The saved records that carry the key of runtime mesh i.
RecordsFor(k, i) == {p \in SavedOf(k) : SavedKey(k, p) = RuntimeKey(k, i)}

Retained(i) == meshes[i].inScene /\ ~meshes[i].disposed

\* The names of the runtime meshes and of the saved records, in order.
RuntimeNames(k) ==
    [j \in 1..Cardinality(RuntimeOf(k)) |-> meshes[Nth(RuntimeOf(k), j)].name]

SavedNamesOf(k) ==
    [j \in 1..Cardinality(SavedOf(k)) |-> Nodes[Nth(SavedOf(k), j)].name]

\* a is b with some entries removed.
IsSubsequence(a, b) ==
    \E I \in SUBSET (1..Len(b)) :
        /\ Cardinality(I) = Len(a)
        /\ \A j \in 1..Len(a) : a[j] = b[Nth(I, j)]

\* C1: of the runtime meshes of a loaded model, exactly those without a saved
\* record under their key lowercase(name)::occurrenceIndex are disposed, and
\* the final mesh set of the model holds exactly the matched ones, each
\* stamped with the token of its record.
C1_ExtrasDisposedMatchedStamped ==
    \A k \in LoadedModels :
        /\ \A i \in RuntimeOf(k) :
              LET records == RecordsFor(k, i)
              IN  IF records = {}
                  THEN meshes[i].disposed /\ ~meshes[i].inScene
                  ELSE /\ Retained(i)
                       /\ \A p \in records : meshes[i].stableId = SavedToken(p)
        /\ \A i \in 1..Len(meshes) :
              (meshes[i].owner = k /\ (meshes[i].disposed \/ meshes[i].inScene))
                  => i \in RuntimeOf(k)

\* The example of the specification: saved "Wheel"/t0 and "Wheel"/t1 against
\* runtime "Wheel", "Wheel", "Door".
C1_Witness ==
    /\ phase = "returned"
    /\ 1 \in LoadedModels
    /\ SavedNamesOf(1) = <<"Wheel", "Wheel">>
    /\ RuntimeNames(1) = <<"Wheel", "Wheel", "Door">>
    /\ Cardinality({i \in 1..Len(meshes) : meshes[i].owner = 1 /\ Retained(i)}) = 2
    /\ \E a, b, c \in RuntimeOf(1) :
          /\ a < b /\ b < c
          /\ meshes[a].stableId = <<"t0">>
          /\ meshes[b].stableId = <<"t1">>
          /\ meshes[c].disposed

\* C2: when the runtime meshes of a loaded model carry the same names in the
\* same order as its N saved records, the i-th runtime mesh carries the token
\* of the i-th record, so every record is matched exactly once, and no mesh
\* is disposed.
C2_EqualSequencesBijection ==
    \A k \in LoadedModels :
        RuntimeNames(k) = SavedNamesOf(k) =>
            \A j \in 1..Len(SavedNamesOf(k)) :
                /\ meshes[Nth(RuntimeOf(k), j)].stableId = SavedToken(Nth(SavedOf(k), j))
                /\ Retained(Nth(RuntimeOf(k), j))

C2_Witness ==
    /\ phase = "returned"
    /\ 1 \in LoadedModels
    /\ SavedNamesOf(1) = <<"Wheel", "Wheel">>
    /\ RuntimeNames(1) = <<"Wheel", "Wheel">>
    /\ \E i \in 1..Len(meshes) : meshes[i].owner = 1 /\ meshes[i].name = "__root__"
    /\ \A i \in RuntimeOf(1) : Retained(i) /\ meshes[i].stableId \in {<<"t0">>, <<"t1">>}

\* C3: when the M runtime meshes of a loaded model are its N saved records
\* with N - M entries removed, M < N, every runtime mesh is retained and
\* carries the token of a saved record of its own, so exactly M records are
\* matched, N - M are not, and no token of an unmatched record is on a mesh.
C3_FewerRuntimeMeshes ==
    \A k \in LoadedModels :
        (/\ Len(RuntimeNames(k)) < Len(SavedNamesOf(k))
         /\ IsSubsequence(RuntimeNames(k), SavedNamesOf(k)))
        =>
        /\ \A i \in RuntimeOf(k) :
              /\ Retained(i)
              /\ \E p \in SavedOf(k) : meshes[i].stableId = SavedToken(p)
        /\ \A i, j \in RuntimeOf(k) : i # j => meshes[i].stableId # meshes[j].stableId
        /\ Cardinality({p \in SavedOf(k) :
               \E i \in 1..Len(meshes) : meshes[i].stableId = SavedToken(p)})
             = Cardinality(RuntimeOf(k))

C3_Witness ==
    /\ phase = "returned"
    /\ 1 \in LoadedModels
    /\ SavedNamesOf(1) = <<"Wheel", "Door">>
    /\ RuntimeNames(1) = <<"Door">>
    /\ \A i \in RuntimeOf(1) : Retained(i) /\ meshes[i].stableId = <<"t1">>
    /\ ~\E i \in 1..Len(meshes) : meshes[i].stableId = <<"t0">>

\* C21: every object the loader returned for a loaded model, the "__root__"
\* container and the entries that are no Mesh included, is in the scene with
\* the model's final mesh set or is disposed.
C21_NoLoadedMeshInLimbo ==
    \A k \in LoadedModels :
        \A i \in 1..Len(meshes) :
            meshes[i].owner = k => (meshes[i].inScene \/ meshes[i].disposed)

----------------------------------------------------------------------------
(* Claims about visibility, failure isolation and validation *)

\* The saved record whose token a stamped mesh of model k carries.
RecordOf(i) ==
    CHOOSE p \in SavedOf(meshes[i].owner) : SavedToken(p) = meshes[i].stableId

FourWayAnd(child, parent) ==
    /\ child.visible # "false"
    /\ child.enabled # "false"
    /\ parent.visible # "false"
    /\ parent.enabled # "false"

Stamped == {i \in 1..Len(meshes) : Retained(i) /\ meshes[i].stableId # Undefined}

\* C4: once instantiateGraph has returned, a runtime mesh matched to a saved
\* child-mesh node is fully visible iff neither the child's nor the parent
\* model's visible or enabled is false, and fully invisible otherwise.
C4_VisibilityIsFourWayAnd ==
    phase = "returned" =>
        \A i \in Stamped :
            meshes[i].visibility =
                IF FourWayAnd(Nodes[RecordOf(i)], Nodes[meshes[i].owner]) THEN 1 ELSE 0

\* C5: in a scene graph that passes validation, an error raised while one
\* node is instantiated (a node without transform or id included) is caught
\* and logged, the load is not aborted, and every other node is instantiated.
C5_NodeFailureIsolated ==
    sceneGraph.shape = "ok" =>
        /\ pc # "error"
        /\ phase = "returned" =>
              \A k \in 1..Len(Nodes) : k \in instantiated \cup errorLog

\* C6: when the parsed document is not an object with an array field nodes,
\* the run never gets past validation, where it ends in the error state: no
\* node is instantiated, no scene settings and no material overrides are
\* applied, and the render loop is not started.
C6_InvalidDocumentIsFatal ==
    sceneGraph.shape \in {"null", "noNodes", "nodesNotArray"} =>
        /\ pc \in {"fetch", "validate", "error"}
        /\ instantiated = {}
        /\ errorLog = {}
        /\ meshes = <<>>
        /\ nodeIdx = 1
        /\ ~settingsApplied
        /\ ~overridesApplied
        /\ ~renderLoop

C6_Witness ==
    /\ sceneGraph.shape = "noNodes"
    /\ sceneGraph.sceneSettings
    /\ sceneGraph.materialOverrides
    /\ pc = "error"

----------------------------------------------------------------------------
(* applyMaterialOverrides on one entry, and the claims about it *)

\* Lines 788-897 for the entry: the material is looked up by name, and the
\* value is assigned directly, or loaded as a texture when the decision of
\* lines 818-827 says so.  new BABYLON.Texture does not throw for a url, so
\* the texture is null only for an empty path (line 74).
ApplyOverrideEntry ==
    /\ pc = "overrideEntry"
    /\ ~ovDone
    /\ ovDone' = TRUE
    /\ IF ~ovFound
       THEN UNCHANGED <<ovSlot, ovLoaded, ovSlotUV>>
       ELSE IF ovValue # NotAString /\ isTextureProperty(ovProperty)
       THEN IF ~shouldApplyOverride(ovSlot, ovValue)
            THEN UNCHANGED <<ovSlot, ovLoaded, ovSlotUV>>
            ELSE LET tex == loadTextureFromAssetPath(ovValue, ovSlot.id + 1)
                 IN  IF tex = NoTexture
                     THEN UNCHANGED <<ovSlot, ovLoaded, ovSlotUV>>
                     ELSE /\ ovSlot' = tex
                          /\ ovSlotUV' = copiedUV(ovSlot, ovSlotUV, ovProperty)
                          /\ ovLoaded' = ovLoaded + 1
       ELSE /\ ovSlot' = Assigned(ovValue)
            /\ ovSlotUV' = NoUV
            /\ UNCHANGED ovLoaded
    /\ UNCHANGED <<ovFound, ovProperty, ovValue, ovOriginal, ovOriginalUV>>
    /\ UNCHANGED mainVars
    /\ UNCHANGED pathVars

UrlAtoms == {"/", "?", "#", "U_", "red.png", "blue.png"}

\* The UV properties of a texture as an asset authors it: every property
\* there, none at the value a new texture starts with.
AuthoredUV == [p \in UVProps |-> "2"]

\* The textures a slot can hold at the start: none, one with a url, or one
\* that has only a name.
OriginalTextures ==
    {NoTexture}
    \cup {Texture(1, url, <<"tex">>) : url \in SeqsUpTo(UrlAtoms, MaxUrlLen) \ {<<>>}}
    \cup {Texture(1, url, name) :
            url \in {Undefined, <<>>},
            name \in {Undefined, <<"red.png">>, <<"red.png", "#", "blue.png">>}}

InitOverride ==
    /\ pc = "overrideEntry"
    /\ ovFound \in BOOLEAN
    /\ ovProperty \in {"albedoTexture", "ambientTexture", "wireframe"}
    /\ ovValue \in SeqsUpTo(UrlAtoms, MaxUrlLen) \cup {NotAString}
    /\ ovOriginal \in OriginalTextures
    /\ ovSlot = ovOriginal
    /\ ovLoaded = 0
    /\ ovDone = FALSE
    /\ ovOriginalUV = IF ovOriginal = NoTexture THEN NoUV ELSE AuthoredUV
    /\ ovSlotUV = ovOriginalUV
    /\ sceneGraph = Document("ok", <<>>, FALSE, TRUE)
    /\ assets = <<>>
    /\ env = NoEnvironment
    /\ MainStart
    /\ PathIdle

NextOverride == ApplyOverrideEntry

SpecOverride == InitOverride /\ [][NextOverride]_vars

\* C10 as stated: a string override of a texture property on a found material
\* replaces the slot iff the slot is empty, or the url of its texture contains
\* '#', or the cleaned basenames differ and the override's is not empty;
\* otherwise nothing is loaded and the slot keeps the original texture.
C10_ReplacedIffDecision ==
    (ovDone /\ ovFound /\ ovValue # NotAString /\ isTextureProperty(ovProperty)) =>
        LET decision ==
                \/ ovOriginal = NoTexture
                \/ (ovOriginal.url # Undefined /\ \E i \in 1..Len(ovOriginal.url) :
                        ovOriginal.url[i] = "#")
                \/ /\ getFilenameFromUrl(currentPathOf(ovOriginal)) # getFilenameFromUrl(ovValue)
                   /\ getFilenameFromUrl(ovValue) # <<>>
        IN  IF decision
            THEN ovSlot # ovOriginal /\ ovLoaded = 1
            ELSE ovSlot = ovOriginal /\ ovLoaded = 0

\* C10 amended: the same, for an override string that is not empty; an empty
\* override string never replaces the slot and loads nothing.
C10_ReplacedIffDecisionAndNonEmpty ==
    (ovDone /\ ovFound /\ ovValue # NotAString /\ isTextureProperty(ovProperty)) =>
        LET decision ==
                \/ ovOriginal = NoTexture
                \/ (ovOriginal.url # Undefined /\ \E i \in 1..Len(ovOriginal.url) :
                        ovOriginal.url[i] = "#")
                \/ /\ getFilenameFromUrl(currentPathOf(ovOriginal)) # getFilenameFromUrl(ovValue)
                   /\ getFilenameFromUrl(ovValue) # <<>>
        IN  IF decision /\ ovValue # <<>>
            THEN /\ ovSlot # ovOriginal
                 /\ ovLoaded = 1
                 /\ ovSlot.url = <<"assets", "/">> \o toRelativeAssetPath(ovValue)
            ELSE ovSlot = ovOriginal /\ ovLoaded = 0

\* An override that names the file the slot already shows, under a uuid
\* prefix, is skipped.
C10_Witness ==
    /\ ovDone
    /\ ovFound
    /\ ovProperty = "albedoTexture"
    /\ ovOriginal.url = <<"/", "red.png">>
    /\ ovValue = <<"U_", "red.png">>
    /\ ovSlot = ovOriginal
    /\ ovLoaded = 0

----------------------------------------------------------------------------
(* An override whose path normalises to the same relative path as the url   *)
(* of the texture in the slot.                                               *)

ShadowAtoms == {"/", "assets", "#", "_", "red.png"}

InitShadow ==
    /\ pc = "overrideEntry"
    /\ ovFound = TRUE
    /\ ovProperty = "albedoTexture"
    /\ \E p, q \in SeqsUpTo(ShadowAtoms, MaxShadowLen) :
          /\ p # <<>>
          /\ p # q
          /\ toRelativeAssetPath(p) = toRelativeAssetPath(q)
          /\ ovOriginal = Texture(1, p, <<"tex">>)
          /\ ovValue = q
    /\ ovSlot = ovOriginal
    /\ ovLoaded = 0
    /\ ovDone = FALSE
    /\ ovOriginalUV = AuthoredUV
    /\ ovSlotUV = ovOriginalUV
    /\ sceneGraph = Document("ok", <<>>, FALSE, TRUE)
    /\ assets = <<>>
    /\ env = NoEnvironment
    /\ MainStart
    /\ PathIdle

SpecShadow == InitShadow /\ [][NextOverride]_vars

\* C11 as stated: when the url p of the texture in the slot and the override
\* value q are distinct storage paths with toRelativeAssetPath(p) =
\* toRelativeAssetPath(q), the replacement is skipped: the slot keeps its
\* texture and nothing is loaded.
C11_EqualNormalFormsSkipped ==
    ovDone => (ovSlot = ovOriginal /\ ovLoaded = 0)

\* C11 amended: the replacement is skipped when p holds no '#' and does not
\* end in '/'; when p holds a '#' and q is not empty the texture counts as
\* embedded and is replaced.
C11_SkippedUnlessEmbeddedOrNoBasename ==
    ovDone =>
        LET p == ovOriginal.url
            q == ovValue
        IN  /\ (Occurrences(p, <<"#">>) = {} /\ p[Len(p)] # "/")
                => (ovSlot = ovOriginal /\ ovLoaded = 0)
            /\ (Occurrences(p, <<"#">>) # {} /\ q # <<>>)
                => (ovSlot # ovOriginal /\ ovLoaded = 1)

\* A texture authored at '_/red.png' and an override 'red.png': skipped.
C11_Witness ==
    /\ ovDone
    /\ ovOriginal.url = <<"_", "/", "red.png">>
    /\ ovValue = <<"red.png">>
    /\ toRelativeAssetPath(ovOriginal.url) = toRelativeAssetPath(ovValue)
    /\ ovSlot = ovOriginal
    /\ ovLoaded = 0

----------------------------------------------------------------------------
(* The UV properties of an applied texture override *)

\* The UV properties an original texture can carry: any of the properties
\* may be missing, and coordinatesIndex may hold something that is no number.
OriginalUVs ==
    {[p \in UVProps |->
        IF p = "coordinatesIndex" THEN ci
        ELSE IF p \in present THEN v ELSE Absent] :
        present \in SUBSET (UVProps \ {"coordinatesIndex"}),
        v \in {"2", "3"},
        ci \in {Absent, NotANumber, "1", "2"}}

InitUV ==
    /\ pc = "overrideEntry"
    /\ ovFound = TRUE
    /\ ovProperty \in {"albedoTexture", "ambientTexture", "lightmapTexture"}
    /\ ovValue = <<"red.png">>
    /\ ovOriginal \in {NoTexture,
                       Texture(1, <<"blue.png">>, <<"tex">>),
                       Texture(1, <<"red.png">>, <<"tex">>),
                       Texture(1, <<"red.png", "#", "blue.png">>, <<"tex">>)}
    /\ IF ovOriginal = NoTexture
       THEN ovOriginalUV = NoUV
       ELSE ovOriginalUV \in OriginalUVs
    /\ ovSlot = ovOriginal
    /\ ovSlotUV = ovOriginalUV
    /\ ovLoaded = 0
    /\ ovDone = FALSE
    /\ sceneGraph = Document("ok", <<>>, FALSE, TRUE)
    /\ assets = <<>>
    /\ env = NoEnvironment
    /\ MainStart
    /\ PathIdle

SpecUV == InitUV /\ [][NextOverride]_vars

\* The override has put a new texture into the slot.
OverrideApplied == ovDone /\ ovLoaded = 1 /\ ovSlot # ovOriginal

\* What the original texture carries of a UV property: a value to preserve.
Carries(p) ==
    IF p = "coordinatesIndex"
    THEN ovOriginalUV[p] \notin {Absent, NotANumber}
    ELSE ovOriginalUV[p] # Absent

\* C12: when a texture override is applied to a slot that held a texture, the
\* new texture's coordinatesIndex, uOffset, vOffset, uScale, vScale, uAng,
\* vAng, wAng, wrapU and wrapV are those the original carries; when the slot
\* was empty, its coordinatesIndex is 1 for ambientTexture and
\* lightmapTexture and 0 for every other texture property.
C12_UVPreservedOrDefaulted ==
    OverrideApplied =>
        IF ovOriginal # NoTexture
        THEN \A p \in {"coordinatesIndex", "uOffset", "vOffset", "uScale", "vScale",
                        "uAng", "vAng", "wAng", "wrapU", "wrapV"} :
                Carries(p) => ovSlotUV[p] = ovOriginalUV[p]
        ELSE ovSlotUV["coordinatesIndex"] =
                IF ovProperty \in {"ambientTexture", "lightmapTexture"} THEN "1" ELSE "0"

\* A texture with every UV property set is replaced and all ten carry over.
C12_Witness ==
    /\ OverrideApplied
    /\ ovOriginal.url = <<"blue.png">>
    /\ \A p \in UVProps : Carries(p) /\ ovOriginalUV[p] # FreshUV[p]
    /\ ovSlotUV = ovOriginalUV

----------------------------------------------------------------------------
(* Specification of the path normaliser alone: any storage path, normalised *)
(* once and then once more.                                                 *)

PathAtoms == {"/", "\\", "assets", "projects", "a"}

InitPath ==
    /\ storagePath \in SeqsUpTo(PathAtoms, MaxPathLen)
    /\ relPath = NoValue
    /\ relAgain = NoValue
    /\ pathCalls = 0
    /\ MainIdle
    /\ OverrideIdle

Normalize ==
    /\ pathCalls = 0
    /\ relPath' = toRelativeAssetPath(storagePath)
    /\ pathCalls' = 1
    /\ UNCHANGED <<storagePath, relAgain>>
    /\ UNCHANGED mainVars
    /\ UNCHANGED overrideVars

NormalizeAgain ==
    /\ pathCalls = 1
    /\ relAgain' = toRelativeAssetPath(relPath)
    /\ pathCalls' = 2
    /\ UNCHANGED <<storagePath, relPath>>
    /\ UNCHANGED mainVars
    /\ UNCHANGED overrideVars

NextPath == Normalize \/ NormalizeAgain

SpecPath == InitPath /\ [][NextPath]_vars

----------------------------------------------------------------------------
(* Claims about the path normaliser, stated over SpecPath *)

HasSlash(s) == \E i \in 1..Len(s) : s[i] = "/"

\* The part of s that follows the occurrence of the marker at position i.
AfterMarkerAt(s, i) == SubSeq(s, i + Len(assetsMarker), Len(s))

\* C7 as stated: a path that contains '/assets/' is cut after the LAST
\* occurrence of the marker.
C7_AfterLastMarker ==
    pathCalls >= 1 =>
        \A i \in Occurrences(storagePath, assetsMarker) :
            (\A j \in Occurrences(storagePath, assetsMarker) : j <= i)
                => relPath = AfterMarkerAt(storagePath, i)

\* C7 amended: a path that contains '/assets/' is cut after the FIRST
\* occurrence of the marker, so later markers stay in the result.
C7_AfterFirstMarker ==
    pathCalls >= 1 =>
        \A i \in Occurrences(storagePath, assetsMarker) :
            (\A j \in Occurrences(storagePath, assetsMarker) : j >= i)
                => relPath = AfterMarkerAt(storagePath, i)

C7_Witness ==
    /\ pathCalls >= 1
    /\ Cardinality(Occurrences(storagePath, assetsMarker)) >= 2
    /\ relPath = AfterMarkerAt(storagePath, Min(Occurrences(storagePath, assetsMarker)))
    /\ relPath # AfterMarkerAt(storagePath, Max(Occurrences(storagePath, assetsMarker)))

\* C8 as stated: normalising a path the normaliser has produced returns it
\* unchanged, normalize(normalize(s)) = normalize(s).
C8_Idempotent == pathCalls = 2 => relAgain = relPath

\* C8 amended: the normaliser returns a string for every input, returns an
\* input unchanged exactly when the input contains no "/", and therefore
\* normalize(normalize(s)) = normalize(s) exactly when normalize(s) is a bare
\* name without "/".
C8_FixedOnBareNames ==
    /\ pathCalls >= 1 =>
          /\ relPath \in Seq(PathAtoms \cup {"_"})
          /\ Len(relPath) <= Len(storagePath)
          /\ (relPath = storagePath <=> ~HasSlash(storagePath))
    /\ pathCalls = 2 =>
          /\ relAgain \in Seq(PathAtoms \cup {"_"})
          /\ (relAgain = relPath <=> ~HasSlash(relPath))

C8_Witness ==
    /\ pathCalls = 2
    /\ HasSlash(storagePath)
    /\ relPath # <<>>
    /\ ~HasSlash(relPath)
    /\ relAgain = relPath

\* C9 as stated: the result is never the empty string.
C9_NeverEmpty == pathCalls >= 1 => relPath # <<>>

\* C9 amended: the result is empty exactly for the empty input and for an
\* input whose first '/assets/' marker ends it; every other input, a path
\* ending in "/" included, yields a non-empty string.
C9_EmptyOnlyForEmptyOrMarkerEnd ==
    pathCalls >= 1 =>
        (relPath = <<>> <=>
            \/ storagePath = <<>>
            \/ /\ Occurrences(storagePath, assetsMarker) # {}
               /\ Min(Occurrences(storagePath, assetsMarker)) + Len(assetsMarker) - 1
                    = Len(storagePath))

C9_Witness ==
    /\ pathCalls >= 1
    /\ storagePath # <<>>
    /\ storagePath[Len(storagePath)] = "/"
    /\ Occurrences(storagePath, assetsMarker) = {}
    /\ relPath # <<>>
    /\ \E i \in 1..Len(relPath) : relPath[i] = "_"

====
